---------------------------- MODULE Spec2Model ----------------------------
(***************************************************************************)
(* A model of robo/fmin/fabolas.py: the fidelity transform (transform,     *)
(* retransform) and the optimization loop (fabolas).                       *)
(*                                                                         *)
(* Real numbers are fixed-point integers with Scale units per 1.0.  The    *)
(* grid is much coarser than float64, so every rounding error of np.log    *)
(* and np.exp is over-approximated, never hidden.                          *)
(***************************************************************************)
EXTENDS Integers, Sequences, FiniteSets, TLC

VARIABLES
  \* ---- fabolas: arguments
  n_init, num_iterations, len_lower, len_upper, s_min, s_max,
  \* ---- fabolas: locals
  pc,          \* position in the body of fabolas
  error,       \* the exception that left fabolas, "none" while there is none
  i,           \* loop index of both loops (i, it)
  cur_x,       \* x of the running initial-design round
  cur_s,       \* s of the running initial-design round
  cur_val,     \* func_val of the running initial-design round
  cur_cost,    \* cost of the running initial-design round
  X, y, c,     \* the Observation Store
  X_ndim,      \* 0 while X is a python list, then X.ndim of the numpy array
  incumbents,  \* the trajectory
  results,     \* the returned dict (meaningful when pc = "done")
  calls,       \* every collaborator call made so far, in order
  now,         \* the wall clock, time.time()
  time_start,  \* time_start
  start_time_overhead,  \* start_time_overhead of the running initial round
  st,          \* st of the running initial round
  time_func_eval, time_overhead, runtime,  \* the three timing series
  \* ---- a stand-alone application of transform / retransform
  t_pc, t_s, t_smin, t_smax, t_st, t_back,
  \* ---- the second argument and results of an application to a pair
  t_s2, t_st2, t_back2,
  \* ---- a stand-alone evaluation of the initial-design schedule
  sch_pc, sch_i, sch_smax, sch_s

fvars == <<n_init, num_iterations, len_lower, len_upper, s_min, s_max, pc,
           error, i, cur_x, cur_s, cur_val, cur_cost, X, y, c, X_ndim,
           incumbents, results, calls, now, time_start,
           start_time_overhead, st, time_func_eval, time_overhead, runtime>>
tvars == <<t_pc, t_s, t_smin, t_smax, t_st, t_back>>
xvars == <<t_s2, t_st2, t_back2, sch_pc, sch_i, sch_smax, sch_s>>
vars == <<fvars, tvars, xvars>>

(***************************************************************************)
(* Bounds of the model.                                                    *)
(***************************************************************************)
MaxIter == 3      \* n_init, num_iterations in 0..MaxIter
MaxDim == 2       \* lower.shape[0], upper.shape[0] in 1..MaxDim
MaxSMin == 4      \* s_min of a stand-alone transform in 1..MaxSMin
MaxTick == 1      \* the clock advances by 0..MaxTick during one step
UnitSteps == 32   \* arguments of retransform: UnitSteps + 1 points of [0, 1]
MaxRound == 8     \* loop index of a stand-alone schedule in 0..MaxRound
MaxSchedSMax == 300 \* s_max of a stand-alone schedule in 2..MaxSchedSMax

SMinValues == {1, 4}                \* s_min of a run
SMaxValues == {100, 256, 1024}      \* s_max of a run
TSMaxValues == {2, 3, 10, 100, 256} \* s_max of a stand-alone transform
Coord == {0, 1}                     \* one coordinate of a configuration
FuncValues == {0, 1}                \* values the objective returns
CostValues == {1, 2}                \* costs the objective returns

(***************************************************************************)
(* Fixed-point arithmetic: np.log, np.exp, np.rint.                        *)
(***************************************************************************)
Scale == 16384    \* units per 1.0
Ln2 == 11357      \* ln(2) in units of 1/Scale, rounded

RECURSIVE FloorLog2(_)
FloorLog2(n) == IF n < 2 THEN 0 ELSE 1 + FloorLog2(n \div 2)

\* The fractional bits of log2(m / Scale), m in [Scale, 2*Scale), one bit per
\* squaring; w is the weight of the next bit.
RECURSIVE Log2Frac(_, _)
Log2Frac(m, w) ==
  IF w = 0 THEN 0
  ELSE LET sq == (m * m) \div Scale
       IN IF sq >= 2 * Scale
            THEN w + Log2Frac(sq \div 2, w \div 2)
            ELSE Log2Frac(sq, w \div 2)

\* np.log(n) for an integer n >= 1.
Log(n) ==
  LET k == FloorLog2(n)
      m == (n * Scale) \div (2 ^ k)
  IN ((k * Scale + Log2Frac(m, Scale \div 2)) * Ln2) \div Scale

\* The Taylor series of exp(r / Scale) from the term after `term`.
RECURSIVE ExpSeries(_, _, _)
ExpSeries(r, term, n) ==
  LET next == (term * r) \div (n * Scale)
  IN IF next = 0 THEN 0 ELSE next + ExpSeries(r, next, n + 1)

\* np.exp(v / Scale) for v >= 0.
Exp(v) ==
  LET k == v \div Ln2
      r == v - k * Ln2
  IN (Scale + ExpSeries(r, Scale, 1)) * (2 ^ k)

\* A faulty variant of rint: truncation instead of rounding to nearest.
rint_truncates(f) == f \div Scale

\* np.rint: round to the nearest integer, halves to the even one.
rint(f) ==
  LET q == f \div Scale
      r == f % Scale
  IN IF 2 * r > Scale \/ (2 * r = Scale /\ q % 2 = 1) THEN q + 1 ELSE q

\* A faulty variant of transform: the division by the log range is missing.
transform_unnormalised(s, smin, smax) == Log(s) - Log(smin)

transform(s, smin, smax) ==
  ((Log(s) - Log(smin)) * Scale) \div (Log(smax) - Log(smin))

retransform(s_transform, smin, smax) ==
  rint(Exp((s_transform * (Log(smax) - Log(smin))) \div Scale + Log(smin)))


(***************************************************************************)
(* fabolas: helpers.                                                       *)
(***************************************************************************)
subsets == <<256, 128, 64, 32>>

TransformParams == 3     \* def transform(s, s_min, s_max)
InitTransformArgs == 1   \* the call transform(s) of the initial design

\* A faulty variant of InitFidelity: the schedule does not wrap.
InitFidelity_noWrap(round, smax) ==
  smax \div (IF round < Len(subsets) THEN subsets[round + 1]
             ELSE subsets[Len(subsets)])

\* s = int(s_max / float(subsets[i % len(subsets)]))
InitFidelity(round, smax) == smax \div subsets[(round % Len(subsets)) + 1]

n_dims == len_lower
Configs == [1..n_dims -> Coord]

Call(op, arg, status, ret) ==
  [op |-> op, arg |-> arg, status |-> status, ret |-> ret]

NoResults == [x_opt |-> <<>>, trajectory |-> <<>>, runtime |-> <<>>,
              overhead |-> <<>>, time_func_eval |-> <<>>]

\* What time.time() can have advanced by between two readings.
Ticks == 0..MaxTick

\* objective_function(x, s): returns (func_val, cost) or raises.
ObjectiveOutcomes ==
  {[status |-> "raise", ret |-> <<>>]} \cup
  {[status |-> "ok", ret |-> <<v, k>>] : v \in FuncValues, k \in CostValues}

\* projected_incumbent_estimation(model, X[:, :-1], proj_value): an augmented
\* point; the loop relies on nothing about its last coordinate.
EstimatorReturns(proj) ==
  {Append(x, f) : x \in Configs, f \in {0, proj}}

\* maximizer.maximize(): a point of [lower ++ 0, upper ++ 1].
MaximizerReturns ==
  {Append(x, f) : x \in Configs, f \in {0, Scale \div 2, Scale}}

\* np.argmin: the first index of the minimum.
ArgMin(seq) ==
  CHOOSE k \in 1..Len(seq) :
    /\ \A j \in 1..Len(seq) : seq[k] <= seq[j]
    /\ \A j \in 1..(k - 1) : seq[j] > seq[k]

\* python's seq[:-1]
DropLast(seq) == SubSeq(seq, 1, Len(seq) - 1)

\* A faulty variant of PreconditionsHold: the shape assertion is missing.
PreconditionsHold_noShapeCheck == n_init <= num_iterations

\* The two assertions that open fabolas.
PreconditionsHold ==
  /\ n_init <= num_iterations
  /\ len_lower = len_upper

Raise(e) ==
  /\ pc' = "failed"
  /\ error' = e

(***************************************************************************)
(* fabolas: the initial state, the arguments drawn from bounded sets.      *)
(***************************************************************************)
TIdle ==
  /\ t_pc = "idle"
  /\ t_s = 1 /\ t_smin = 1 /\ t_smax = 2
  /\ t_st = 0 /\ t_back = 0

XIdle ==
  /\ t_s2 = 1 /\ t_st2 = 0 /\ t_back2 = 0
  /\ sch_pc = "idle" /\ sch_i = 0 /\ sch_smax = 1 /\ sch_s = <<>>

Init ==
  /\ n_init \in 0..MaxIter
  /\ num_iterations \in 0..MaxIter
  /\ len_lower \in 1..MaxDim
  /\ len_upper \in 1..MaxDim
  /\ s_min \in SMinValues
  /\ s_max \in SMaxValues
  /\ s_min < s_max
  /\ pc = "start"
  /\ error = "none"
  /\ i = 0
  /\ cur_x = <<>> /\ cur_s = 0 /\ cur_val = 0 /\ cur_cost = 0
  /\ X = <<>> /\ y = <<>> /\ c = <<>>
  /\ X_ndim = 0
  /\ incumbents = <<>>
  /\ results = NoResults
  /\ calls = <<>>
  /\ now = 0 /\ time_start = 0 /\ start_time_overhead = 0 /\ st = 0
  /\ time_func_eval = <<>> /\ time_overhead = <<>> /\ runtime = <<>>
  /\ XIdle
  /\ TIdle

(***************************************************************************)
(* fabolas: the assertions and the construction of the collaborators.      *)
(* Constructing the models, the acquisition function and the maximizer     *)
(* trains, updates and maximizes nothing.                                  *)
(***************************************************************************)
CheckPreconditions ==
  /\ pc = "start"
  /\ IF PreconditionsHold
       THEN /\ pc' = "init_design"
            /\ error' = error
            /\ time_start' = now
            /\ \E d \in Ticks : now' = now + d
       ELSE /\ Raise("AssertionError")
            /\ UNCHANGED <<now, time_start>>
  /\ UNCHANGED <<n_init, num_iterations, len_lower, len_upper, s_min, s_max,
                 i, cur_x, cur_s, cur_val, cur_cost, X, y, c, X_ndim,
                 incumbents, results, calls, start_time_overhead, st,
                 time_func_eval, time_overhead, runtime>>
  /\ UNCHANGED <<tvars, xvars>>

(***************************************************************************)
(* Initial design, one round in three steps.                               *)
(***************************************************************************)
\* start_time_overhead = time.time()
\* s = int(s_max / float(subsets[i % len(subsets)])); x = init_random_uniform
\* st = time.time()
InitDraw ==
  /\ pc = "init_design"
  /\ i < n_init
  /\ start_time_overhead' = now
  /\ cur_s' = InitFidelity(i, s_max)
  /\ \E x \in Configs : cur_x' = x
  /\ \E d \in Ticks : /\ now' = now + d
                      /\ st' = now + d
  /\ pc' = "init_eval"
  /\ UNCHANGED <<n_init, num_iterations, len_lower, len_upper, s_min, s_max,
                 error, i, cur_val, cur_cost, X, y, c, X_ndim, incumbents,
                 results, calls, time_start, time_func_eval, time_overhead,
                 runtime>>
  /\ UNCHANGED <<tvars, xvars>>

\* A faulty variant of InitEvaluate: the objective's exception is swallowed.
InitEvaluate_swallows ==
  /\ pc = "init_eval"
  /\ \E out \in ObjectiveOutcomes, d \in Ticks :
       /\ calls' = Append(calls, Call("objective", <<cur_x, cur_s>>,
                                      out.status, out.ret))
       /\ now' = now + d
       /\ IF out.status = "raise"
            THEN UNCHANGED <<cur_val, cur_cost, time_func_eval>>
            ELSE /\ cur_val' = out.ret[1]
                 /\ cur_cost' = out.ret[2]
                 /\ time_func_eval' = Append(time_func_eval, now + d - st)
       /\ pc' = "init_book"
       /\ error' = error
  /\ UNCHANGED <<n_init, num_iterations, len_lower, len_upper, s_min, s_max,
                 i, cur_x, cur_s, X, y, c, X_ndim, incumbents, results,
                 time_start, start_time_overhead, st, time_overhead, runtime>>
  /\ UNCHANGED <<tvars, xvars>>

\* func_val, cost = objective_function(x, s)
\* time_func_eval.append(time.time() - st)
InitEvaluate ==
  /\ pc = "init_eval"
  /\ \E out \in ObjectiveOutcomes, d \in Ticks :
       /\ calls' = Append(calls, Call("objective", <<cur_x, cur_s>>,
                                      out.status, out.ret))
       /\ now' = now + d
       /\ IF out.status = "raise"
            THEN /\ Raise("ObjectiveError")
                 /\ UNCHANGED <<cur_val, cur_cost, time_func_eval>>
            ELSE /\ cur_val' = out.ret[1]
                 /\ cur_cost' = out.ret[2]
                 /\ time_func_eval' = Append(time_func_eval, now + d - st)
                 /\ pc' = "init_book"
                 /\ error' = error
  /\ UNCHANGED <<n_init, num_iterations, len_lower, len_upper, s_min, s_max,
                 i, cur_x, cur_s, X, y, c, X_ndim, incumbents, results,
                 time_start, start_time_overhead, st, time_overhead, runtime>>
  /\ UNCHANGED <<tvars, xvars>>

\* s_transformed = transform(s) ... runtime.append(...): the call gives
\* transform one argument of its three, which python answers with TypeError.
InitBookkeeping ==
  /\ pc = "init_book"
  /\ IF InitTransformArgs # TransformParams
       THEN /\ Raise("TypeError")
            /\ UNCHANGED <<i, X, y, c, incumbents, now, time_overhead,
                           runtime>>
       ELSE LET s_transformed == transform(cur_s, s_min, s_max)
                config == Append(cur_x, s_transformed)
                X1 == Append(X, config)
                y1 == Append(y, cur_val)
                best_idx == ArgMin(y1)
            IN /\ X' = X1
               /\ y' = y1
               /\ c' = Append(c, cur_cost)
               /\ incumbents' = Append(incumbents, Append(X1[best_idx], s_max))
               /\ \E d \in Ticks :
                    /\ now' = now + d
                    /\ time_overhead' =
                         Append(time_overhead, now + d - start_time_overhead)
                    /\ runtime' = Append(runtime, now + d - time_start)
               /\ i' = i + 1
               /\ pc' = "init_design"
               /\ error' = error
  /\ UNCHANGED <<n_init, num_iterations, len_lower, len_upper, s_min, s_max,
                 cur_x, cur_s, cur_val, cur_cost, X_ndim, results, calls,
                 time_start, start_time_overhead, st, time_func_eval>>
  /\ UNCHANGED <<tvars, xvars>>

\* X = np.array(X); y = np.array(y); c = np.array(c): an empty list becomes
\* an array of shape (0,), a list of rows one of shape (n, D+1).
ConvertStore ==
  /\ pc = "init_design"
  /\ i >= n_init
  /\ X_ndim' = IF Len(X) = 0 THEN 1 ELSE 2
  /\ i' = n_init
  /\ pc' = "guided"
  /\ UNCHANGED <<n_init, num_iterations, len_lower, len_upper, s_min, s_max,
                 error, cur_x, cur_s, cur_val, cur_cost, X, y, c, incumbents,
                 results, calls, now, time_start, start_time_overhead, st,
                 time_func_eval, time_overhead, runtime>>
  /\ UNCHANGED <<tvars, xvars>>


(***************************************************************************)
(* Model-guided search: one round of the second loop.  The round is        *)
(* sequential code with no interleaving; it is one step, and calls'        *)
(* records the order of the collaborator calls inside it.  d1 is the time  *)
(* from start_time to the overhead reading, d2 the time of the evaluation. *)
(***************************************************************************)
GuidedRound ==
  /\ pc = "guided"
  /\ i < num_iterations
  /\ \E incumbent \in EstimatorReturns(s_max * Scale),
        new_x \in MaximizerReturns,
        out \in ObjectiveOutcomes,
        d1 \in Ticks, d2 \in Ticks :
       LET trained == calls \o
             << Call("train_objective", <<X, y, TRUE>>, "ok", <<>>),
                Call("train_cost", <<X, c, TRUE>>, "ok", <<>>) >>
       IN IF X_ndim # 2
            \* X[:, :-1] on an array of shape (0,): IndexError
            THEN /\ calls' = trained
                 /\ Raise("IndexError")
                 /\ now' = now + d1
                 /\ UNCHANGED <<i, X, y, c, incumbents, time_func_eval,
                                time_overhead, runtime>>
            ELSE LET s == retransform(new_x[Len(new_x)], s_min, s_max)
                     proposed == trained \o
                       << Call("estimate",
                               <<[k \in 1..Len(X) |-> DropLast(X[k])],
                                 s_max * Scale>>, "ok", incumbent),
                          Call("update", <<>>, "ok", <<>>),
                          Call("maximize", <<>>, "ok", new_x),
                          Call("objective", <<DropLast(new_x), s>>,
                               out.status, out.ret) >>
                 IN /\ calls' = proposed
                    /\ incumbents' = Append(incumbents, incumbent)
                    /\ time_overhead' = Append(time_overhead, d1)
                    /\ now' = now + d1 + d2
                    /\ IF out.status = "raise"
                         THEN /\ Raise("ObjectiveError")
                              /\ UNCHANGED <<i, X, y, c, time_func_eval,
                                             runtime>>
                         ELSE /\ time_func_eval' = Append(time_func_eval, d2)
                              /\ X' = Append(X, new_x)
                              /\ y' = Append(y, out.ret[1])
                              /\ c' = Append(c, out.ret[2])
                              /\ runtime' =
                                   Append(runtime, now + d1 + d2 - time_start)
                              /\ i' = i + 1
                              /\ pc' = pc
                              /\ error' = error
  /\ UNCHANGED <<n_init, num_iterations, len_lower, len_upper, s_min, s_max,
                 cur_x, cur_s, cur_val, cur_cost, X_ndim, results,
                 time_start, start_time_overhead, st>>
  /\ UNCHANGED <<tvars, xvars>>

(***************************************************************************)
(* Finalization: the last training, the final incumbent and the results.   *)
(***************************************************************************)
Finalize ==
  /\ pc = "guided"
  /\ i >= num_iterations
  /\ \E estimated \in EstimatorReturns(Scale) :
       LET trained == Append(calls,
                        Call("train_objective", <<X, y>>, "ok", <<>>))
       IN IF X_ndim # 2
            \* X[:, :-1] on an array of shape (0,): IndexError
            THEN /\ calls' = trained
                 /\ Raise("IndexError")
                 /\ UNCHANGED <<incumbents, results>>
            ELSE LET incumbent ==
                       [estimated EXCEPT ![Len(estimated)] = s_max]
                     trajectory == Append(incumbents, incumbent)
                 IN /\ calls' = Append(trained,
                         Call("estimate",
                              <<[k \in 1..Len(X) |-> DropLast(X[k])], Scale>>,
                              "ok", estimated))
                    /\ incumbents' = trajectory
                    /\ results' = [x_opt |-> DropLast(incumbent),
                                   trajectory |-> trajectory,
                                   runtime |-> runtime,
                                   overhead |-> time_overhead,
                                   time_func_eval |-> time_func_eval]
                    /\ pc' = "done"
                    /\ error' = error
  /\ UNCHANGED <<n_init, num_iterations, len_lower, len_upper, s_min, s_max,
                 i, cur_x, cur_s, cur_val, cur_cost, X, y, c, X_ndim, now,
                 time_start, start_time_overhead, st, time_func_eval,
                 time_overhead, runtime>>
  /\ UNCHANGED <<tvars, xvars>>

Next ==
  \/ CheckPreconditions
  \/ InitDraw
  \/ InitEvaluate
  \/ InitBookkeeping
  \/ ConvertStore
  \/ GuidedRound
  \/ Finalize

Spec == Init /\ [][Next]_vars

(***************************************************************************)
(* transform and retransform on their own: the arguments are drawn from    *)
(* bounded sets of integers with 0 < s_min <= s <= s_max, s_min < s_max.   *)
(***************************************************************************)
TInit ==
  /\ n_init = 0 /\ num_iterations = 0
  /\ len_lower = 1 /\ len_upper = 1
  /\ s_min = 1 /\ s_max = 2
  /\ pc = "idle"
  /\ error = "none"
  /\ i = 0
  /\ cur_x = <<>> /\ cur_s = 0 /\ cur_val = 0 /\ cur_cost = 0
  /\ X = <<>> /\ y = <<>> /\ c = <<>>
  /\ X_ndim = 0
  /\ incumbents = <<>>
  /\ results = NoResults
  /\ calls = <<>>
  /\ now = 0 /\ time_start = 0 /\ start_time_overhead = 0 /\ st = 0
  /\ time_func_eval = <<>> /\ time_overhead = <<>> /\ runtime = <<>>
  /\ XIdle
  /\ t_pc = "start"
  /\ t_smin \in 1..MaxSMin
  /\ t_smax \in TSMaxValues
  /\ t_smin < t_smax
  /\ t_s \in t_smin..t_smax
  /\ t_st = 0
  /\ t_back = 0

ApplyTransform ==
  /\ t_pc = "start"
  /\ t_st' = transform(t_s, t_smin, t_smax)
  /\ t_pc' = "transformed"
  /\ UNCHANGED <<t_s, t_smin, t_smax, t_back>>
  /\ UNCHANGED <<fvars, xvars>>

ApplyRetransform ==
  /\ t_pc = "transformed"
  /\ t_back' = retransform(t_st, t_smin, t_smax)
  /\ t_pc' = "retransformed"
  /\ UNCHANGED <<t_s, t_smin, t_smax, t_st>>
  /\ UNCHANGED <<fvars, xvars>>

TNext ==
  \/ ApplyTransform
  \/ ApplyRetransform

SpecTransform == TInit /\ [][TNext]_vars

\* fabolas is not running.
FIdle ==
  /\ n_init = 0 /\ num_iterations = 0
  /\ len_lower = 1 /\ len_upper = 1
  /\ s_min = 1 /\ s_max = 2
  /\ pc = "idle"
  /\ error = "none"
  /\ i = 0
  /\ cur_x = <<>> /\ cur_s = 0 /\ cur_val = 0 /\ cur_cost = 0
  /\ X = <<>> /\ y = <<>> /\ c = <<>>
  /\ X_ndim = 0
  /\ incumbents = <<>>
  /\ results = NoResults
  /\ calls = <<>>
  /\ now = 0 /\ time_start = 0 /\ start_time_overhead = 0 /\ st = 0
  /\ time_func_eval = <<>> /\ time_overhead = <<>> /\ runtime = <<>>

(***************************************************************************)
(* transform applied to two fidelities s <= s2 of [s_min, s_max], and      *)
(* retransform applied to two arguments s_transform <= s_transform2 of     *)
(* [0, 1].                                                                 *)
(***************************************************************************)
UnitGrid == {k * (Scale \div UnitSteps) : k \in 0..UnitSteps}

MInit ==
  /\ FIdle
  /\ sch_pc = "idle" /\ sch_i = 0 /\ sch_smax = 1 /\ sch_s = <<>>
  /\ t_smin \in 1..MaxSMin
  /\ t_smax \in TSMaxValues
  /\ t_smin < t_smax
  /\ \/ /\ t_pc = "raw_pair"
        /\ t_s \in t_smin..t_smax
        /\ t_s2 \in t_s..t_smax
        /\ t_st = 0 /\ t_st2 = 0
     \/ /\ t_pc = "unit_pair"
        /\ t_s = t_smin /\ t_s2 = t_smin
        /\ t_st \in UnitGrid
        /\ t_st2 \in {u \in UnitGrid : t_st <= u}
  /\ t_back = 0
  /\ t_back2 = 0

ApplyTransformPair ==
  /\ t_pc = "raw_pair"
  /\ t_st' = transform(t_s, t_smin, t_smax)
  /\ t_st2' = transform(t_s2, t_smin, t_smax)
  /\ t_pc' = "raw_pair_done"
  /\ UNCHANGED <<t_s, t_s2, t_smin, t_smax, t_back, t_back2>>
  /\ UNCHANGED <<fvars, sch_pc, sch_i, sch_smax, sch_s>>

ApplyRetransformPair ==
  /\ t_pc = "unit_pair"
  /\ t_back' = retransform(t_st, t_smin, t_smax)
  /\ t_back2' = retransform(t_st2, t_smin, t_smax)
  /\ t_pc' = "unit_pair_done"
  /\ UNCHANGED <<t_s, t_s2, t_smin, t_smax, t_st, t_st2>>
  /\ UNCHANGED <<fvars, sch_pc, sch_i, sch_smax, sch_s>>

MNext ==
  \/ ApplyTransformPair
  \/ ApplyRetransformPair

SpecMonotone == MInit /\ [][MNext]_vars

(***************************************************************************)
(* The initial-design schedule on its own: the fidelities of the rounds    *)
(* sch_i, sch_i + 1 and sch_i + Len(subsets) for one s_max.                *)
(***************************************************************************)
SInit ==
  /\ FIdle
  /\ TIdle
  /\ t_s2 = 1 /\ t_st2 = 0 /\ t_back2 = 0
  /\ sch_pc = "start"
  /\ sch_i \in 0..MaxRound
  /\ sch_smax \in 2..MaxSchedSMax
  /\ sch_s = <<>>

ApplySchedule ==
  /\ sch_pc = "start"
  /\ sch_s' = << InitFidelity(sch_i, sch_smax),
                 InitFidelity(sch_i + 1, sch_smax),
                 InitFidelity(sch_i + Len(subsets), sch_smax) >>
  /\ sch_pc' = "done"
  /\ UNCHANGED <<sch_i, sch_smax, t_s2, t_st2, t_back2>>
  /\ UNCHANGED <<fvars, tvars>>

SNext == ApplySchedule

SpecSchedule == SInit /\ [][SNext]_vars


(***************************************************************************)
(* Vocabulary of the properties.                                           *)
(***************************************************************************)
NumCalls(op) == Cardinality({k \in DOMAIN calls : calls[k].op = op})

ObjectiveReturned ==
  Cardinality({k \in DOMAIN calls :
                 calls[k].op = "objective" /\ calls[k].status = "ok"})

ObjectiveRaised ==
  \E k \in DOMAIN calls :
    calls[k].op = "objective" /\ calls[k].status = "raise"

ValidArgs == n_init <= num_iterations /\ len_lower = len_upper

\* fabolas is between two rounds, or has ended.
BetweenRounds == pc \in {"init_design", "guided", "done", "failed"}

\* fabolas has ended, by return or by exception.
Ended == pc \in {"done", "failed"}

\* The run ended and neither an assertion nor the objective stopped it.
EndedUnforced == Ended /\ ValidArgs /\ ~ObjectiveRaised

(***************************************************************************)
(* C1: a call with n_init > num_iterations, or with lower and upper of     *)
(* different lengths, fails with the assertion's error before the          *)
(* objective, a train, an acquisition update or a maximize is called, and  *)
(* returns no results.                                                     *)
(***************************************************************************)
C1_PreconditionsFailFast ==
  (n_init > num_iterations \/ len_lower # len_upper) =>
     /\ pc \in {"start", "failed"}
     /\ pc = "failed" => error = "AssertionError"
     /\ calls = <<>>
     /\ X = <<>> /\ incumbents = <<>>
     /\ results = NoResults

C1_Witness ==
  /\ len_lower # len_upper
  /\ n_init <= num_iterations
  /\ pc = "failed"
  /\ error = "AssertionError"
  /\ calls = <<>>

(***************************************************************************)
(* C2: between rounds and at the end of a run the Observation Store holds  *)
(* exactly one record per objective evaluation that returned:              *)
(* len(X) = len(y) = len(c) = the number of returned evaluations; no round *)
(* ends after its evaluation without appending.                            *)
(***************************************************************************)
C2_OneRecordPerRound ==
  BetweenRounds =>
     /\ Len(X) = ObjectiveReturned
     /\ Len(y) = ObjectiveReturned
     /\ Len(c) = ObjectiveReturned

(***************************************************************************)
(* C3: the trajectory holds one entry per round whose evaluation returned, *)
(* and one more after finalization; a run that neither an assertion nor    *)
(* the objective stopped returns num_iterations + 1 entries.               *)
(***************************************************************************)
C3_OneIncumbentPerRound ==
  /\ (BetweenRounds /\ ~ObjectiveRaised) =>
        Len(incumbents) = ObjectiveReturned + (IF pc = "done" THEN 1 ELSE 0)
  /\ pc = "done" => Len(results.trajectory) = num_iterations + 1

(***************************************************************************)
(* C4: for integers 0 < s_min <= s <= s_max with s_min < s_max,            *)
(* retransform(transform(s, s_min, s_max), s_min, s_max) = s.              *)
(***************************************************************************)
C4_RoundTrip ==
  t_pc = "retransformed" => t_back = t_s

C4_Witness ==
  /\ t_pc = "retransformed"
  /\ t_smin = 3 /\ t_smax = 256 /\ t_s = 100
  /\ t_st > 0 /\ t_st < Scale
  /\ t_back = 100

(***************************************************************************)
(* C5: every fidelity the objective is called with is positive and lies    *)
(* in [s_min, s_max].                                                      *)
(***************************************************************************)
C5_FidelityInRange ==
  \A k \in DOMAIN calls :
    calls[k].op = "objective" =>
       /\ calls[k].arg[2] > 0
       /\ s_min <= calls[k].arg[2]
       /\ calls[k].arg[2] <= s_max

(***************************************************************************)
(* C6: every initial-design round whose evaluation returned has its entry  *)
(* in the trajectory; the entry carries the configuration of the first     *)
(* observation of minimum value among those made up to that round, and     *)
(* its last coordinate is s_max.                                           *)
(***************************************************************************)
C6_InitialIncumbentIsArgmin ==
  (BetweenRounds /\ ValidArgs) =>
     \A k \in 1..ObjectiveReturned :
       k <= n_init =>
          /\ k <= Len(incumbents)
          /\ k <= Len(X)
          /\ LET best == ArgMin(SubSeq(y, 1, k))
                 inc == incumbents[k]
             IN /\ SubSeq(inc, 1, n_dims) = SubSeq(X[best], 1, n_dims)
                /\ inc[Len(inc)] = s_max

(***************************************************************************)
(* C7: a run that neither an assertion nor the objective stopped ends in   *)
(* finalization; the last trajectory entry then has s_max as its last      *)
(* coordinate and x_opt is that entry without its last coordinate.         *)
(***************************************************************************)
C7_FinalIncumbentAtSMax ==
  EndedUnforced =>
     /\ pc = "done"
     /\ Len(results.trajectory) > 0
     /\ LET last == results.trajectory[Len(results.trajectory)]
        IN /\ last[Len(last)] = s_max
           /\ results.x_opt = DropLast(last)

(***************************************************************************)
(* C8: with n_init = num_iterations a run that neither an assertion nor    *)
(* the objective stopped has called maximize, update and the cost          *)
(* surrogate's train never, the objective surrogate's train once, and the  *)
(* objective n_init times.                                                 *)
(***************************************************************************)
C8_NoGuidedRound ==
  (EndedUnforced /\ n_init = num_iterations) =>
     /\ NumCalls("maximize") = 0
     /\ NumCalls("update") = 0
     /\ NumCalls("train_cost") = 0
     /\ NumCalls("train_objective") = 1
     /\ NumCalls("objective") = n_init

(***************************************************************************)
(* C9: with n_init = num_iterations >= 1 a run that neither an assertion   *)
(* nor the objective stopped returns, with n_init observations, n_init + 1 *)
(* trajectory entries, the first n_init of them at fidelity s_max, and     *)
(* x_opt the configuration of the observation of lowest value.             *)
(***************************************************************************)
C9_InitialOnlyRun ==
  (EndedUnforced /\ n_init = num_iterations /\ n_init >= 1) =>
     /\ pc = "done"
     /\ Len(X) = n_init
     /\ Len(results.trajectory) = n_init + 1
     /\ \A k \in 1..n_init :
          results.trajectory[k][Len(results.trajectory[k])] = s_max
     /\ results.x_opt = SubSeq(X[ArgMin(y)], 1, n_dims)

(***************************************************************************)
(* C10: once the objective has raised, fabolas has failed with the         *)
(* objective's error, has returned nothing, the raising call is the last   *)
(* collaborator call, and no step changes the Observation Store, the       *)
(* trajectory, the calls or the results any more.                          *)
(***************************************************************************)
C10_ObjectiveFailurePropagates ==
  /\ [](ObjectiveRaised =>
          /\ pc = "failed"
          /\ error = "ObjectiveError"
          /\ results = NoResults
          /\ calls[Len(calls)].status = "raise")
  /\ [][ObjectiveRaised =>
          UNCHANGED <<pc, error, X, y, c, incumbents, calls, results>>]_vars

C10_Witness ==
  /\ pc = "failed"
  /\ error = "ObjectiveError"
  /\ ObjectiveRaised
  /\ NumCalls("objective") = 1
  /\ X = <<>> /\ incumbents = <<>>


(***************************************************************************)
(* C11: a run with valid arguments whose collaborators all return ends by  *)
(* returning, after num_iterations rounds and exactly num_iterations       *)
(* objective evaluations, one per round.                                   *)
(***************************************************************************)
C11_RunCompletes ==
  EndedUnforced =>
     /\ pc = "done"
     /\ error = "none"
     /\ i = num_iterations
     /\ NumCalls("objective") = num_iterations
     /\ Len(X) = num_iterations

(***************************************************************************)
(* C13: every model-guided round that the objective does not stop makes    *)
(* its calls in the order train objective (X, y), train cost (X, c),       *)
(* estimate, update, maximize, objective, both trainings with do_optimize  *)
(* and on the whole store of that moment, and then appends.                *)
(***************************************************************************)
C13_GuidedCallOrder ==
  (BetweenRounds /\ ~ObjectiveRaised) =>
     /\ Len(X) = ObjectiveReturned
     /\ \A k \in DOMAIN calls :
          calls[k].op = "train_cost" =>
             /\ k >= 2
             /\ calls[k - 1].op = "train_objective"
             /\ calls[k - 1].arg[3] = TRUE
             /\ calls[k].arg[3] = TRUE
             /\ calls[k - 1].arg[1] = calls[k].arg[1]
             /\ Len(calls[k].arg[1]) =
                  Cardinality({j \in 1..k : calls[j].op = "objective"})
             /\ calls[k].arg[1] = SubSeq(X, 1, Len(calls[k].arg[1]))
             /\ k + 4 <= Len(calls)
             /\ calls[k + 1].op = "estimate"
             /\ calls[k + 2].op = "update"
             /\ calls[k + 3].op = "maximize"
             /\ calls[k + 4].op = "objective"

(***************************************************************************)
(* C14: every model-guided round that the objective does not stop          *)
(* evaluates the objective at the maximizer's proposal p, configuration    *)
(* p[:-1] and fidelity retransform(p[-1]), and appends the row p itself    *)
(* with the value and the cost of that evaluation.                         *)
(***************************************************************************)
C14_GuidedEvaluatesProposal ==
  (BetweenRounds /\ ~ObjectiveRaised) =>
     \A k \in DOMAIN calls :
       calls[k].op = "train_cost" =>
          /\ k + 4 <= Len(calls)
          /\ calls[k + 3].op = "maximize"
          /\ calls[k + 4].op = "objective"
          /\ LET p == calls[k + 3].ret
                 r == Cardinality({j \in 1..(k + 4) :
                                     calls[j].op = "objective"})
             IN /\ Len(p) = n_dims + 1
                /\ calls[k + 4].arg =
                     <<DropLast(p), retransform(p[Len(p)], s_min, s_max)>>
                /\ r <= Len(X)
                /\ X[r] = p
                /\ y[r] = calls[k + 4].ret[1]
                /\ c[r] = calls[k + 4].ret[2]

(***************************************************************************)
(* C15: the last column of every X given to a train lies in [0, 1], and    *)
(* every guided round and the finalization, once their training is done,   *)
(* give the incumbent estimator a target fidelity in [0, 1], the           *)
(* finalization the value 1.                                               *)
(***************************************************************************)
C15_TransformedFidelityOnly ==
  (BetweenRounds /\ ~ObjectiveRaised) =>
     \A k \in DOMAIN calls :
       /\ calls[k].op \in {"train_objective", "train_cost"} =>
            \A r \in DOMAIN calls[k].arg[1] :
              LET row == calls[k].arg[1][r]
              IN row[Len(row)] >= 0 /\ row[Len(row)] <= Scale
       /\ calls[k].op = "train_cost" =>
            /\ k + 1 <= Len(calls)
            /\ calls[k + 1].op = "estimate"
            /\ calls[k + 1].arg[2] >= 0
            /\ calls[k + 1].arg[2] <= Scale
       /\ (calls[k].op = "train_objective" /\ Len(calls[k].arg) = 2) =>
            /\ k + 1 <= Len(calls)
            /\ calls[k + 1].op = "estimate"
            /\ calls[k + 1].arg[2] = Scale

(***************************************************************************)
(* C16: every initial-design round whose evaluation returned has its entry *)
(* in the trajectory, and the entry has exactly D + 1 components: the D    *)
(* of the best observed configuration and then s_max.                      *)
(***************************************************************************)
C16_InitialIncumbentLength ==
  (BetweenRounds /\ ValidArgs) =>
     \A k \in 1..ObjectiveReturned :
       k <= n_init =>
          /\ k <= Len(incumbents)
          /\ Len(incumbents[k]) = n_dims + 1
          /\ k <= Len(X)
          /\ incumbents[k] =
               Append(SubSeq(X[ArgMin(SubSeq(y, 1, k))], 1, n_dims), s_max)

(***************************************************************************)
(* C18: every initial-design round whose evaluation returned records an    *)
(* overhead that leaves the evaluation out: overhead and evaluation time   *)
(* together fit into the time the round took.                              *)
(***************************************************************************)
C18_OverheadExcludesEvaluation ==
  (BetweenRounds /\ ValidArgs) =>
     \A k \in 1..ObjectiveReturned :
       k <= n_init =>
          /\ k <= Len(time_func_eval)
          /\ k <= Len(time_overhead)
          /\ k <= Len(runtime)
          /\ time_overhead[k] + time_func_eval[k] <=
               runtime[k] - (IF k = 1 THEN 0 ELSE runtime[k - 1])

(***************************************************************************)
(* C19: between rounds and at the end of a run that the objective did not  *)
(* stop, each of the three timing series has one entry per round whose     *)
(* evaluation returned, the runtime series never decreases, and the        *)
(* returned series have num_iterations entries each.                       *)
(***************************************************************************)
C19_TimingSeriesAligned ==
  (BetweenRounds /\ ~ObjectiveRaised) =>
     /\ Len(time_func_eval) = ObjectiveReturned
     /\ Len(time_overhead) = ObjectiveReturned
     /\ Len(runtime) = ObjectiveReturned
     /\ \A k \in 2..Len(runtime) : runtime[k - 1] <= runtime[k]
     /\ pc = "done" =>
          /\ Len(results.time_func_eval) = num_iterations
          /\ Len(results.overhead) = num_iterations
          /\ Len(results.runtime) = num_iterations

(***************************************************************************)
(* C20: a run with n_init = 0 and bounds of equal length that the          *)
(* objective does not stop returns, with num_iterations + 1 trajectory     *)
(* entries; the empty store makes no step fail.                            *)
(***************************************************************************)
C20_EmptyStoreAccepted ==
  (Ended /\ n_init = 0 /\ len_lower = len_upper /\ ~ObjectiveRaised) =>
     /\ pc = "done"
     /\ error = "none"
     /\ Len(results.trajectory) = num_iterations + 1


(***************************************************************************)
(* C12: over [s_min, s_max] transform is strictly increasing, takes its    *)
(* values in [0, 1], is 0 at s_min and 1 at s_max; over [0, 1] retransform *)
(* never decreases.                                                        *)
(***************************************************************************)
C12_Monotone ==
  /\ t_pc = "raw_pair_done" =>
       /\ t_st >= 0 /\ t_st <= Scale
       /\ t_s = t_smin => t_st = 0
       /\ t_s = t_smax => t_st = Scale
       /\ t_s < t_s2 => t_st < t_st2
  /\ t_pc = "unit_pair_done" =>
       (t_st <= t_st2 => t_back <= t_back2)

C12_Witness ==
  /\ t_pc = "raw_pair_done"
  /\ t_smin = 3 /\ t_smax = 256
  /\ t_s = 100 /\ t_s2 = 101
  /\ t_st > 0 /\ t_st < t_st2 /\ t_st2 < Scale

(***************************************************************************)
(* C17, as amended: round i takes its fidelity from position i mod 4 of    *)
(* the schedule s_max/256, s_max/128, s_max/64, s_max/32 (truncated), so   *)
(* rounds i and i + 4 use the same one; within one pass the fidelity       *)
(* never decreases from a round to the next, and grows when s_max >= 128.  *)
(***************************************************************************)
ScheduleDivisor(round) == 256 \div (2 ^ (round % 4))

=============================================================================
